---- MODULE Spec2Model ----
(***************************************************************************)
(* Model of the legal-intelligence text-mining tools:                      *)
(*   src/legalintelligence/tools.py  (dataset construction and transforms) *)
(*   src/textmining/extract.py       (zip archive scanning)                *)
(*                                                                         *)
(* Python lists live in a heap of addressed objects, so that two Bunch     *)
(* fields bound to the same list object are visible as such.  A Bunch is a *)
(* record of addresses; Deref gives the lists it currently holds.          *)
(* Strings that the code takes apart (the text of a subject element) are   *)
(* sequences of one-character strings.  Python's list(set(...)) has no     *)
(* specified order, so it is any enumeration of the set.                   *)
(***************************************************************************)
EXTENDS Integers, Sequences, FiniteSets, TLC

VARIABLES heap, data, result, call, mapping, transforms,
          zip, num_handled_files, num_files, file_calls, state_calls

vars == <<heap, data, result, call, mapping, transforms,
          zip, num_handled_files, num_files, file_calls, state_calls>>

zipVars == <<zip, num_handled_files, num_files, file_calls, state_calls>>

(***************************************************************************)
(* Bounds of the model.                                                    *)
(***************************************************************************)
\* most records the extractor ingests
MaxRecords == 3
\* largest min_support / max_documents argument tried
MaxParam == 3
\* most Transform Engine calls made after one another
MaxTransforms == 1
\* most entries in a zip archive
MaxEntries == 3

(***************************************************************************)
(* Python values.                                                          *)
(***************************************************************************)
\* Python's None where the code stores it among integers (target2)
None == -1

Range(s) == {s[i] : i \in 1..Len(s)}

\* the orders list(set(xs)) may produce: every enumeration of the set
RECURSIVE list_of_set(_)
list_of_set(S) ==
  IF S = {} THEN {<<>>}
  ELSE UNION {{<<x>> \o t : t \in list_of_set(S \ {x})} : x \in S}

\* xs.index(x): 0-based position of the first occurrence
RECURSIVE IndexFrom(_, _, _)
IndexFrom(xs, x, i) ==
  IF i > Len(xs) THEN None
  ELSE IF xs[i] = x THEN i - 1 ELSE IndexFrom(xs, x, i + 1)

index(xs, x) == IndexFrom(xs, x, 1)

\* xs[i] with a 0-based Python index
item(xs, i) == xs[i + 1]

(***************************************************************************)
(* extract_subjects: the text of every dcterms:subject element, with the   *)
(* whitespace around semicolons removed, split at the semicolons.          *)
(***************************************************************************)
IsSpace(c) == c = " "

\* re.sub(r"\s*;\s*", ";", text): a whitespace character goes exactly when
\* only whitespace separates it from some semicolon
RECURSIVE SelectIdx(_, _, _)
SelectIdx(text, keep, i) ==
  IF i > Len(text) THEN <<>>
  ELSE (IF i \in keep THEN <<text[i]>> ELSE <<>>) \o SelectIdx(text, keep, i + 1)

re_sub_semicolon(text) ==
  LET n == Len(text)
      Gap(i, j) == \A k \in (IF i < j THEN (i + 1)..(j - 1) ELSE (j + 1)..(i - 1)) :
                      IsSpace(text[k])
      Dropped(i) == IsSpace(text[i]) /\ \E j \in 1..n : text[j] = ";" /\ Gap(i, j)
  IN SelectIdx(text, {i \in 1..n : ~Dropped(i)}, 1)

\* text.split(";")
RECURSIVE SplitFrom(_, _, _)
SplitFrom(text, i, cur) ==
  IF i > Len(text) THEN <<cur>>
  ELSE IF text[i] = ";" THEN <<cur>> \o SplitFrom(text, i + 1, <<>>)
  ELSE SplitFrom(text, i + 1, Append(cur, text[i]))

split(text) == SplitFrom(text, 1, <<>>)

\* the text of an element that has none (subject_node.text is None)
NoText == <<"None">>

RECURSIVE ExtendSubjects(_, _)
ExtendSubjects(nodes, i) ==
  IF i > Len(nodes) THEN <<>>
  ELSE split(re_sub_semicolon(nodes[i])) \o ExtendSubjects(nodes, i + 1)

\* re.sub on None raises TypeError, which handle_xml_file does not catch
extract_subjects(nodes) ==
  IF \E i \in 1..Len(nodes) : nodes[i] = NoText
  THEN [raised |-> "TypeError", subjects |-> <<>>]
  ELSE [raised |-> "none", subjects |-> ExtendSubjects(nodes, 1)]

(***************************************************************************)
(* The documents handed to handle_xml_file: a path and what parsing the    *)
(* content gives (a parse failure, or the flattened text and the texts of  *)
(* the subject elements in document order).                                *)
(***************************************************************************)
Doc(p, ok, t, nodes) == [path |-> p, wellformed |-> ok, text |-> t, subject_nodes |-> nodes]

NoDoc == Doc("", FALSE, "", <<>>)

Docs ==
  { Doc("malformed.xml", FALSE, "", <<>>),
    Doc("nosubject.xml", TRUE, "t0", <<>>),
    Doc("a.xml", TRUE, "t1", << <<"a">> >>),
    Doc("a_b.xml", TRUE, "t3", << <<"a", " ", ";", " ", "b">> >>),
    Doc("b+a.xml", TRUE, "t4", << <<"b">>, <<"a">> >>),
    Doc("a_a.xml", TRUE, "t5", << <<"a", ";", " ", "a">> >>),
    Doc("aba.xml", TRUE, "t6", << <<"a", ";", "b">>, <<" ", "a">> >>),
    Doc("notext.xml", TRUE, "t8", << NoText >>) }

(***************************************************************************)
(* Bunch values and the heap.                                              *)
(***************************************************************************)
Bunch(f, d, t1, t2, n1, n2) ==
  [files |-> f, data |-> d, target1 |-> t1, target2 |-> t2,
   target1_names |-> n1, target2_names |-> n2]

EmptyBunch == Bunch(<<>>, <<>>, <<>>, <<>>, <<>>, <<>>)

\* addresses: 0 is no object, 1..6 the lists made by the extractor's
\* constructor, 7..12 the lists made by the latest transform
Addresses == 1..12
NoBunch == Bunch(0, 0, 0, 0, 0, 0)
SelfData == Bunch(1, 2, 3, 4, 5, 6)
Fresh == Bunch(7, 8, 9, 10, 11, 12)

Fields == {"files", "data", "target1", "target2", "target1_names", "target2_names"}

Deref(b) ==
  Bunch(heap[b.files], heap[b.data], heap[b.target1], heap[b.target2],
        heap[b.target1_names], heap[b.target2_names])

\* the latest call: the operation, the Bunch passed and the lists it held when
\* passed, the other arguments, and the exception that escaped ("none": returned)
NoCall == [op |-> "init", input |-> NoBunch, dataset |-> EmptyBunch, indices |-> {},
           n |-> 0, doc |-> NoDoc, raised |-> "none"]

NoMapping == <<>>
NoZip == [valid |-> TRUE, entries |-> <<>>, max_files |-> 0, state_handler |-> FALSE,
          pc |-> "idle"]

\* LegalIntelligenceExtractor.__init__
Init ==
  /\ heap = [a \in Addresses |-> <<>>]
  /\ data = SelfData
  /\ result = NoBunch
  /\ call = NoCall
  /\ mapping = NoMapping
  /\ transforms = 0
  /\ zip = NoZip
  /\ num_handled_files = 0
  /\ num_files = 0
  /\ file_calls = <<>>
  /\ state_calls = <<>>

(***************************************************************************)
(* LegalIntelligenceExtractor.handle_xml_file                              *)
(***************************************************************************)
\* names.append(s) unless s is in names already
WithName(names, s) == IF s \in Range(names) THEN names ELSE Append(names, s)

\* a slip that would take any document with a subject
accepted_nonempty(subjects) == Len(subjects) >= 1

\* the acceptance rule: exactly one or two subjects
accepted(subjects) == Len(subjects) = 1 \/ Len(subjects) = 2

\* the body of the try block once the subjects are known
AppendRecord(d, path, text, subjects) ==
  IF accepted(subjects)
  THEN LET n1 == WithName(d.target1_names, subjects[1])
           n2 == IF Len(subjects) = 2 THEN WithName(d.target2_names, subjects[2])
                 ELSE d.target2_names
           t2 == IF Len(subjects) = 2 THEN index(n2, subjects[2]) ELSE None
       IN Bunch(Append(d.files, path), Append(d.data, text),
                Append(d.target1, index(n1, subjects[1])), Append(d.target2, t2),
                n1, n2)
  ELSE d

\* the Bunch after the call and the exception that escapes it, if any
handle_xml_file(d, doc) ==
  IF ~doc.wellformed
  THEN [raised |-> "none", value |-> d]   \* ParseError is caught
  ELSE LET s == extract_subjects(doc.subject_nodes)
       IN IF s.raised # "none"
          THEN [raised |-> s.raised, value |-> d]
          ELSE [raised |-> "none", value |-> AppendRecord(d, doc.path, doc.text, s.subjects)]

\* writes the lists of bunch b back to the heap
Store(h, b, v) ==
  [a \in Addresses |->
     IF a = b.files THEN v.files
     ELSE IF a = b.data THEN v.data
     ELSE IF a = b.target1 THEN v.target1
     ELSE IF a = b.target2 THEN v.target2
     ELSE IF a = b.target1_names THEN v.target1_names
     ELSE IF a = b.target2_names THEN v.target2_names
     ELSE h[a]]

HandleXmlFile ==
  /\ Len(heap[data.files]) < MaxRecords
  /\ \E doc \in Docs :
       LET d == Deref(data)
           r == handle_xml_file(d, doc)
       IN /\ heap' = Store(heap, data, r.value)
          /\ call' = [NoCall EXCEPT !.op = "handle_xml_file", !.input = data, !.dataset = d,
                                    !.doc = doc, !.raised = r.raised]
  /\ mapping' = NoMapping
  /\ UNCHANGED <<data, result, transforms, zipVars>>

(***************************************************************************)
(* remove_indices and cleanup_target_names.  Each returns the set of its   *)
(* possible outcomes: one per order that list(set(...)) may produce.       *)
(***************************************************************************)
Returned(v, shared) == [raised |-> "none", value |-> v, shares |-> shared]
Raised(e) == [raised |-> e, value |-> EmptyBunch, shares |-> {}]

\* [xs[i] for i in indices]
Pick(xs, indices) == [k \in 1..Len(indices) |-> item(xs, indices[k])]

\* target_names[None] raises TypeError
cleanup_target_names(targets, target_names) ==
  { IF None \in Range(unique_targets)
    THEN [raised |-> "TypeError", targets |-> <<>>, names |-> <<>>]
    ELSE [raised |-> "none",
          targets |-> [k \in 1..Len(targets) |-> index(unique_targets, targets[k])],
          names |-> Pick(target_names, unique_targets)]
    : unique_targets \in list_of_set(Range(targets)) }

remove_indices(dataset, indices_to_remove) ==
  LET all_indices == 0..(Len(dataset.files) - 1)
  IN UNION {
       LET files == Pick(dataset.files, indices)
           texts == Pick(dataset.data, indices)
           target1 == Pick(dataset.target1, indices)
           target2 == Pick(dataset.target2, indices)
       IN { IF c1.raised # "none" THEN Raised(c1.raised)
            ELSE IF c2.raised # "none" THEN Raised(c2.raised)
            ELSE Returned(Bunch(files, texts, c1.targets, c2.targets, c1.names, c2.names), {})
            : c1 \in cleanup_target_names(target1, dataset.target1_names),
              c2 \in cleanup_target_names(target2, dataset.target2_names) }
       : indices \in list_of_set(all_indices \ indices_to_remove) }

(***************************************************************************)
(* The filters: choose the indices to drop, then remove_indices.           *)
(***************************************************************************)
filter_incomplete_subjects(dataset) ==
  remove_indices(dataset,
                 {i \in 0..(Len(dataset.files) - 1) : item(dataset.target2, i) = None})

\* support[target]: the indices of the records with that target2, ascending
RECURSIVE IndicesOf(_, _, _)
IndicesOf(targets, target, i) ==
  IF i >= Len(targets) THEN <<>>
  ELSE (IF item(targets, i) = target THEN <<i>> ELSE <<>>) \o IndicesOf(targets, target, i + 1)

support(dataset) ==
  [target \in Range(dataset.target2) |-> IndicesOf(dataset.target2, target, 0)]

filter_small_subjects(dataset, min_support) ==
  LET s == support(dataset)
  IN remove_indices(dataset,
       UNION {Range(s[target]) : target \in {t \in DOMAIN s : Len(s[t]) < min_support}})

\* support[target][max_documents:] for 0 <= max_documents
chop_large_subjects(dataset, max_documents) ==
  LET s == support(dataset)
  IN remove_indices(dataset,
       UNION {Range(SubSeq(s[target], max_documents + 1, Len(s[target])))
              : target \in {t \in DOMAIN s : Len(s[t]) > max_documents}})

(***************************************************************************)
(* shuffle_dataset: the records in the order random.shuffle leaves the     *)
(* index array in; the result's name tables are the input's list objects.  *)
(***************************************************************************)
Seeds == {None, 1}

\* a slip that would leave target1 in its old order
shuffle_dataset_target1_unshuffled(dataset, seed) ==
  { Returned(Bunch(Pick(dataset.files, index_shuffle), Pick(dataset.data, index_shuffle),
                   dataset.target1, Pick(dataset.target2, index_shuffle),
                   dataset.target1_names, dataset.target2_names),
             {"target1_names", "target2_names"})
    : index_shuffle \in list_of_set(0..(Len(dataset.target1) - 1)) }

shuffle_dataset(dataset, seed) ==
  { Returned(Bunch(Pick(dataset.files, index_shuffle), Pick(dataset.data, index_shuffle),
                   Pick(dataset.target1, index_shuffle), Pick(dataset.target2, index_shuffle),
                   dataset.target1_names, dataset.target2_names),
             {"target1_names", "target2_names"})
    : index_shuffle \in list_of_set(0..(Len(dataset.target1) - 1)) }

(***************************************************************************)
(* get_indices: mapping[target1_name][target2_name] = list of indices.     *)
(* A dict is a function on its keys; {} is the empty function << >>.       *)
(***************************************************************************)
RECURSIVE GetIndicesFrom(_, _, _)
GetIndicesFrom(dataset, i, m) ==
  IF i >= Len(dataset.target2) THEN [raised |-> "none", value |-> m]
  ELSE LET target1_name == item(dataset.target1_names, item(dataset.target1, i))
           m1 == IF target1_name \in DOMAIN m THEN m ELSE m @@ (target1_name :> <<>>)
           target2 == item(dataset.target2, i)
       IN IF target2 = None
          THEN [raised |-> "TypeError", value |-> <<>>]   \* target2_names[None]
          ELSE LET target2_name == item(dataset.target2_names, target2)
                   inner == m1[target1_name]
                   inner1 == IF target2_name \in DOMAIN inner THEN inner
                             ELSE inner @@ (target2_name :> <<>>)
                   inner2 == [inner1 EXCEPT ![target2_name] = Append(@, i)]
               IN GetIndicesFrom(dataset, i + 1, [m1 EXCEPT ![target1_name] = inner2])

get_indices(dataset) == GetIndicesFrom(dataset, 0, <<>>)

(***************************************************************************)
(* Calls of the transforms.  The caller passes the extractor's dataset or  *)
(* the dataset the previous transform returned, and keeps what the call    *)
(* returns in `result`; a call that raises returns nothing.                *)
(***************************************************************************)
Inputs == {data} \cup (IF result = NoBunch THEN {} ELSE {result})

\* the Bunch a transform returns: new lists, but for the fields it shares
ReturnedBunch(b, o) ==
  LET at(f) == IF f \in o.shares THEN b[f] ELSE Fresh[f]
  IN Bunch(at("files"), at("data"), at("target1"), at("target2"),
           at("target1_names"), at("target2_names"))

Live(b) == {b[f] : f \in Fields}

Return(b, o) ==
  IF o.raised # "none"
  THEN UNCHANGED <<heap, result>>
  ELSE LET r == ReturnedBunch(b, o)
           new == {f \in Fields : f \notin o.shares}
       IN /\ result' = r
          /\ heap' = [a \in Addresses |->
                        IF \E f \in new : r[f] = a THEN o.value[CHOOSE f \in new : r[f] = a]
                        ELSE IF a \in Live(data) \cup Live(r) THEN heap[a]
                        ELSE <<>>]

Transform(op, b, S, n, outcomes) ==
  /\ transforms < MaxTransforms
  /\ transforms' = transforms + 1
  /\ \E o \in outcomes :
       /\ Return(b, o)
       /\ call' = [NoCall EXCEPT !.op = op, !.input = b, !.dataset = Deref(b), !.indices = S,
                                 !.n = n, !.raised = o.raised]
  /\ mapping' = NoMapping
  /\ UNCHANGED <<data, zipVars>>

RemoveIndices ==
  \E b \in Inputs : \E S \in SUBSET (0..Len(heap[b.files])) :
    Transform("remove_indices", b, S, 0, remove_indices(Deref(b), S))

FilterIncompleteSubjects ==
  \E b \in Inputs :
    Transform("filter_incomplete_subjects", b, {}, 0, filter_incomplete_subjects(Deref(b)))

FilterSmallSubjects ==
  \E b \in Inputs : \E min_support \in 0..MaxParam :
    Transform("filter_small_subjects", b, {}, min_support,
              filter_small_subjects(Deref(b), min_support))

ChopLargeSubjects ==
  \E b \in Inputs : \E max_documents \in 0..MaxParam :
    Transform("chop_large_subjects", b, {}, max_documents,
              chop_large_subjects(Deref(b), max_documents))

ShuffleDataset ==
  \E b \in Inputs : \E seed \in Seeds :
    Transform("shuffle_dataset", b, {}, 0, shuffle_dataset(Deref(b), seed))

GetIndices ==
  /\ transforms < MaxTransforms
  /\ transforms' = transforms + 1
  /\ \E b \in Inputs :
       LET r == get_indices(Deref(b))
       IN /\ mapping' = r.value
          /\ call' = [NoCall EXCEPT !.op = "get_indices", !.input = b, !.dataset = Deref(b),
                                    !.raised = r.raised]
  /\ UNCHANGED <<heap, data, result, zipVars>>

Next ==
  \/ HandleXmlFile
  \/ RemoveIndices
  \/ FilterIncompleteSubjects
  \/ FilterSmallSubjects
  \/ ChopLargeSubjects
  \/ ShuffleDataset
  \/ GetIndices

Spec == Init /\ [][Next]_vars

(***************************************************************************)
(* parse_zip_file, one loop iteration per step.  An archive entry has a    *)
(* name and either decodes as UTF-8 or does not; file_calls and            *)
(* state_calls are the calls made to the two handlers so far.              *)
(***************************************************************************)
\* math.inf, the default of max_files
inf == -1

\* min(n, max_files) and n >= max_files with max_files possibly math.inf
min(n, max_files) == IF max_files = inf \/ n < max_files THEN n ELSE max_files
reached(n, max_files) == max_files # inf /\ n >= max_files

Archives ==
  UNION {[1..n -> [utf8 : BOOLEAN]] : n \in 0..MaxEntries}

\* the text file_handle.read().decode('utf-8') gives for the i-th entry
decode(i) == <<"text", i>>

ParseZipFile ==
  /\ zip.pc = "idle"
  /\ \E valid \in BOOLEAN, entries \in Archives,
        max_files \in (0..(MaxEntries + 1)) \cup {inf}, state_handler \in BOOLEAN :
       /\ zip' = [valid |-> valid, entries |-> entries, max_files |-> max_files,
                  state_handler |-> state_handler,
                  pc |-> IF valid THEN "loop" ELSE "BadZipfile"]
       /\ num_files' = IF valid THEN min(Len(entries), max_files) ELSE 0
  /\ num_handled_files' = 0
  /\ UNCHANGED <<file_calls, state_calls, heap, data, result, call, mapping, transforms>>

\* the body of the for loop, for the entry after those handled so far
ReadEntry ==
  /\ zip.pc = "loop"
  /\ num_handled_files < Len(zip.entries)
  /\ LET i == num_handled_files + 1
     IN /\ file_calls' = IF zip.entries[i].utf8 THEN Append(file_calls, <<i, decode(i)>>)
                         ELSE file_calls
        /\ num_handled_files' = i
        /\ state_calls' = IF zip.state_handler THEN Append(state_calls, <<i, num_files>>)
                          ELSE state_calls
        /\ zip' = [zip EXCEPT !.pc = IF reached(i, zip.max_files) THEN "done" ELSE "loop"]
  /\ UNCHANGED <<num_files, heap, data, result, call, mapping, transforms>>

\* the for loop runs out of entries
EndOfArchive ==
  /\ zip.pc = "loop"
  /\ num_handled_files = Len(zip.entries)
  /\ zip' = [zip EXCEPT !.pc = "done"]
  /\ UNCHANGED <<num_handled_files, num_files, file_calls, state_calls,
                 heap, data, result, call, mapping, transforms>>

NextZip ==
  \/ ParseZipFile
  \/ ReadEntry
  \/ EndOfArchive

SpecZip == Init /\ [][NextZip]_vars

\* the extractor alone
NextIngest == HandleXmlFile

SpecIngest == Init /\ [][NextIngest]_vars

\* the extractor and shuffle_dataset
NextShuffle ==
  \/ HandleXmlFile
  \/ ShuffleDataset

SpecShuffle == Init /\ [][NextShuffle]_vars

(***************************************************************************)
(* Vocabulary of the properties.                                           *)
(***************************************************************************)
TransformOps == {"remove_indices", "filter_incomplete_subjects", "filter_small_subjects",
                 "chop_large_subjects", "shuffle_dataset"}

Idx(d) == 0..(Len(d.files) - 1)

NoDuplicates(names) ==
  \A p, q \in 1..Len(names) : p # q => names[p] # names[q]

\* the data-model invariants 1 to 4
WellFormed(d) ==
  /\ Len(d.files) = Len(d.data)
  /\ Len(d.files) = Len(d.target1)
  /\ Len(d.files) = Len(d.target2)
  /\ \A i \in Idx(d) : item(d.target1, i) \in 0..(Len(d.target1_names) - 1)
  /\ \A i \in Idx(d) : \/ item(d.target2, i) = None
                       \/ item(d.target2, i) \in 0..(Len(d.target2_names) - 1)
  /\ NoDuplicates(d.target1_names)
  /\ NoDuplicates(d.target2_names)
  /\ \A p \in 0..(Len(d.target1_names) - 1) : \E i \in Idx(d) : item(d.target1, i) = p
  /\ \A p \in 0..(Len(d.target2_names) - 1) : \E i \in Idx(d) : item(d.target2, i) = p

\* the label a target stands for: << >> when absent, <<name>> otherwise
Label(names, t) == IF t = None THEN <<>> ELSE <<item(names, t)>>

\* record i with its labels resolved through the name tables
Rec(d, i) ==
  <<item(d.files, i), item(d.data, i),
    Label(d.target1_names, item(d.target1, i)), Label(d.target2_names, item(d.target2, i))>>

\* record i as stored
Raw(d, i) == <<item(d.files, i), item(d.data, i), item(d.target1, i), item(d.target2, i)>>

\* the records of d at I and of e at J are the same multiset
SameRecords(d, I, e, J) ==
  \A r \in {Rec(d, i) : i \in I} \cup {Rec(e, j) : j \in J} :
    Cardinality({i \in I : Rec(d, i) = r}) = Cardinality({j \in J : Rec(e, j) = r})

SameRaw(d, e) ==
  \A r \in {Raw(d, i) : i \in Idx(d)} \cup {Raw(e, j) : j \in Idx(e)} :
    Cardinality({i \in Idx(d) : Raw(d, i) = r}) = Cardinality({j \in Idx(e) : Raw(e, j) = r})

\* the target2 group of record i
GroupOf(d, i) == {j \in Idx(d) : item(d.target2, j) = item(d.target2, i)}

\* the records of d whose target2 label is L, in record order
RECURSIVE RecsWithLabel(_, _, _)
RecsWithLabel(d, L, i) ==
  IF i >= Len(d.files) THEN <<>>
  ELSE (IF Label(d.target2_names, item(d.target2, i)) = L THEN <<Rec(d, i)>> ELSE <<>>)
       \o RecsWithLabel(d, L, i + 1)

Prefix(xs, ys) == Len(xs) <= Len(ys) /\ SubSeq(ys, 1, Len(xs)) = xs

Completed(op) == call.op = op /\ call.raised = "none"

(***************************************************************************)
(* C1..C6 and C10 are properties of Spec, C7 of SpecShuffle, C8 of        *)
(* SpecIngest, C9 of SpecZip.                                              *)
(***************************************************************************)

\* C1: after handle_xml_file calls the extractor's dataset satisfies invariants
\* 1 to 4, and every transform applied to a dataset satisfying them returns a
\* dataset that satisfies them (equal lengths, valid indices, no duplicate
\* names, no unreferenced name).
C1_TransformsReturnWellFormed ==
  /\ call.op \in {"init", "handle_xml_file"} => WellFormed(Deref(data))
  /\ (call.op \in TransformOps /\ WellFormed(call.dataset))
       => (call.raised = "none" /\ WellFormed(Deref(result)))

\* C2: remove_indices(D, S) returns exactly the records of D whose index is
\* not in S (indices of S outside D ignored), each with its file, text and
\* label names, and equal labels get equal indices in the result.
C2_RemoveIndicesKeepsTheOthers ==
  (call.op = "remove_indices" /\ WellFormed(call.dataset)) =>
    LET D == call.dataset
        R == Deref(result)
    IN /\ call.raised = "none"
       /\ Len(R.files) = Cardinality(Idx(D) \ call.indices)
       /\ SameRecords(D, Idx(D) \ call.indices, R, Idx(R))
       /\ NoDuplicates(R.target1_names)
       /\ NoDuplicates(R.target2_names)

\* C3: remove_indices on a dataset in which a retained record has the absent
\* marker as target2 completes, keeps the marker on that record and gives the
\* marker no slot in the compacted target2_names.
C3_AbsentMarkerPassesThrough ==
  (/\ call.op = "remove_indices"
   /\ WellFormed(call.dataset)
   /\ \E i \in Idx(call.dataset) \ call.indices : item(call.dataset.target2, i) = None) =>
    LET D == call.dataset
        R == Deref(result)
    IN /\ call.raised = "none"
       /\ Cardinality({j \in Idx(R) : item(R.target2, j) = None})
            = Cardinality({i \in Idx(D) \ call.indices : item(D.target2, i) = None})
       /\ Len(R.target2_names)
            = Cardinality({item(R.target2, j) : j \in Idx(R)} \ {None})

\* C4: filter_small_subjects(D, k) returns the records of the target2 groups
\* of D (the absent marker a group of its own) that have at least k records:
\* every group of the result has at least k records, every record dropped was
\* in a group smaller than k, every record of a group of at least k is kept.
C4_SmallSubjectsFiltered ==
  (call.op = "filter_small_subjects" /\ WellFormed(call.dataset)) =>
    LET D == call.dataset
        R == Deref(result)
        Kept == {i \in Idx(D) : Cardinality(GroupOf(D, i)) >= call.n}
    IN /\ call.raised = "none"
       /\ \A j \in Idx(R) : Cardinality(GroupOf(R, j)) >= call.n
       /\ SameRecords(D, Kept, R, Idx(R))

\* C5: chop_large_subjects(D, m), m >= 0, returns a dataset in which every
\* target2 group has at most m records; of a group larger than m exactly the
\* first m records are kept, in their original relative order; a group of at
\* most m records keeps all its records.
C5_LargeSubjectsChopped ==
  (call.op = "chop_large_subjects" /\ WellFormed(call.dataset)) =>
    LET D == call.dataset
        R == Deref(result)
        m == call.n
        Labels == {Label(D.target2_names, item(D.target2, i)) : i \in Idx(D)}
    IN /\ call.raised = "none"
       /\ \A j \in Idx(R) : Cardinality(GroupOf(R, j)) <= m
       /\ \A L \in Labels :
            LET before == RecsWithLabel(D, L, 0)
                after == RecsWithLabel(R, L, 0)
            IN IF Len(before) > m
               THEN after = SubSeq(before, 1, m)
               ELSE /\ Len(after) = Len(before)
                    /\ \A r \in Range(before) :
                         Cardinality({k \in 1..Len(before) : before[k] = r})
                           = Cardinality({k \in 1..Len(after) : after[k] = r})
       /\ \A j \in Idx(R) : Label(R.target2_names, item(R.target2, j)) \in Labels

\* C6: a transform leaves the lists of its input as they were and returns a
\* Bunch none of whose six lists is a list object of the input.
C6_OutputSharesNothingWithInput ==
  (call.op \in TransformOps /\ call.raised = "none") =>
    /\ Deref(call.input) = call.dataset
    /\ Live(result) \cap Live(call.input) = {}

\* C7: shuffle_dataset(D, seed) returns the stored records of D, each
\* (files[i], data[i], target1[i], target2[i]) intact, as the same multiset,
\* and name tables with the contents and order of D's.
C7_ShuffleIsAPermutation ==
  call.op = "shuffle_dataset" =>
    LET D == call.dataset
        R == Deref(result)
    IN /\ call.raised = "none"
       /\ Len(R.files) = Len(D.files)
       /\ Len(R.data) = Len(D.files)
       /\ Len(R.target1) = Len(D.files)
       /\ Len(R.target2) = Len(D.files)
       /\ SameRaw(D, R)
       /\ R.target1_names = D.target1_names
       /\ R.target2_names = D.target2_names

\* a shuffle of three records with different labels that changed their order
C7_Witness ==
  /\ Completed("shuffle_dataset")
  /\ Len(call.dataset.files) = MaxRecords
  /\ Len(call.dataset.target1_names) = 2
  /\ \E i \in Idx(call.dataset) : item(call.dataset.target2, i) = None
  /\ Deref(result).files # call.dataset.files

\* C8: handle_xml_file on a document that parses and has one or two subjects
\* appends exactly one record (target2 absent when there is one subject) and
\* leaves the earlier records as they were; on a document with no or more
\* than two subjects, or one that fails to parse, it leaves all six lists
\* unchanged; no exception escapes in these cases.
C8_OneOrTwoSubjectsAppendOneRecord ==
  call.op = "handle_xml_file" =>
    LET D == call.dataset
        E == Deref(data)
        doc == call.doc
        s == extract_subjects(doc.subject_nodes)
        n == Len(D.files)
    IN IF ~doc.wellformed
       THEN call.raised = "none" /\ E = D
       ELSE s.raised = "none" =>
            IF Len(s.subjects) \in {1, 2}
            THEN /\ call.raised = "none"
                 /\ E.files = Append(D.files, doc.path)
                 /\ E.data = Append(D.data, doc.text)
                 /\ Len(E.target1) = n + 1 /\ SubSeq(E.target1, 1, n) = D.target1
                 /\ Len(E.target2) = n + 1 /\ SubSeq(E.target2, 1, n) = D.target2
                 /\ Prefix(D.target1_names, E.target1_names)
                 /\ Prefix(D.target2_names, E.target2_names)
                 /\ Label(E.target1_names, item(E.target1, n)) = <<s.subjects[1]>>
                 /\ Label(E.target2_names, item(E.target2, n))
                      = (IF Len(s.subjects) = 1 THEN <<>> ELSE <<s.subjects[2]>>)
            ELSE call.raised = "none" /\ E = D

\* a one-subject document appended after a two-subject one
C8_Witness ==
  /\ Completed("handle_xml_file")
  /\ Len(call.dataset.files) >= 1
  /\ Len(extract_subjects(call.doc.subject_nodes).subjects) = 1
  /\ Len(heap[data.files]) = Len(call.dataset.files) + 1
  /\ item(heap[data.target2], 0) # None
  /\ item(heap[data.target2], Len(call.dataset.files)) = None

\* C9: parse_zip_file on a valid archive of n entries reads exactly
\* total = min(n, max_files) entries in archive order and stops, hands each
\* read entry that decodes to the handler once with its name and text, and
\* calls the progress callback, if any, with handled = 1, ..., total.
C9_ReadsExactlyTotalEntries ==
  zip.pc = "done" =>
    LET total == min(Len(zip.entries), zip.max_files)
    IN /\ num_handled_files = total
       /\ num_files = total
       /\ file_calls = SelectSeq([i \in 1..total |-> <<i, decode(i)>>],
                                 LAMBDA c : zip.entries[c[1]].utf8)
       /\ state_calls = IF zip.state_handler THEN [i \in 1..total |-> <<i, total>>] ELSE <<>>

\* C10: get_indices(D) completes, leaves D as it was, and returns a mapping
\* in which every record index i is exactly once in the list at
\* mapping[target1_names[target1[i]]][target2_names[target2[i]]], every list
\* ascending and holding only indices with the labels of its keys.
C10_GetIndicesGroupsEveryRecord ==
  (call.op = "get_indices" /\ WellFormed(call.dataset)) =>
    LET D == call.dataset
        name1(i) == item(D.target1_names, item(D.target1, i))
        name2(i) == item(D.target2_names, item(D.target2, i))
    IN /\ call.raised = "none"
       /\ Deref(call.input) = D
       /\ \A i \in Idx(D) :
            /\ name1(i) \in DOMAIN mapping
            /\ name2(i) \in DOMAIN mapping[name1(i)]
            /\ Cardinality({k \in 1..Len(mapping[name1(i)][name2(i)]) :
                              mapping[name1(i)][name2(i)][k] = i}) = 1
       /\ \A a \in DOMAIN mapping : \A b \in DOMAIN mapping[a] :
            LET l == mapping[a][b]
            IN /\ \A k \in 1..Len(l) : l[k] \in Idx(D) /\ name1(l[k]) = a /\ name2(l[k]) = b
               /\ \A k \in 1..(Len(l) - 1) : l[k] < l[k + 1]

(***************************************************************************)
(* What holds of the calls that return: the contracts of C1, C2, C4, C5    *)
(* and C10 with "the call returns" as a premise, and C5 up to the order of *)
(* the records.                                                            *)
(***************************************************************************)
ReturnedWellFormed ==
  (call.op \in TransformOps /\ WellFormed(call.dataset) /\ call.raised = "none")
    => WellFormed(Deref(result))

ReturnedRemoveIndices == call.raised = "none" => C2_RemoveIndicesKeepsTheOthers

ReturnedFilterSmall == call.raised = "none" => C4_SmallSubjectsFiltered

ReturnedChop ==
  (Completed("chop_large_subjects") /\ WellFormed(call.dataset)) =>
    LET D == call.dataset
        R == Deref(result)
        Kept == {i \in Idx(D) :
                   Cardinality({j \in GroupOf(D, i) : j < i}) < call.n}
    IN SameRecords(D, Kept, R, Idx(R))

\* does not hold: remove_indices lists the kept indices by iterating a set, so
\* the records chop_large_subjects keeps may come back in another order
ReturnedChopInOrder == call.raised = "none" => C5_LargeSubjectsChopped

ReturnedGetIndices == call.raised = "none" => C10_GetIndicesGroupsEveryRecord

\* a transform raises only TypeError, and only when a record it keeps or
\* looks up has the absent marker as target2
RaisesOnlyOnAbsent ==
  (call.op \in TransformOps \cup {"get_indices"} /\ call.raised # "none") =>
    /\ call.raised = "TypeError"
    /\ \E i \in Idx(call.dataset) : item(call.dataset.target2, i) = None
====
